---- MODULE Spec2Model ----
(***************************************************************************)
(* Model of the MRTK-TRACKER scraping core:                                *)
(*   src/scraper.py         MyResultScraper (parse_runner, fetch_runner,   *)
(*                          get_many_async, get_many)                      *)
(*   src/scraper_runner.py  the batch entry point (__main__)               *)
(* Every await of the coroutines is one step of the model, so that the     *)
(* workers of one batch interleave exactly at their await points.          *)
(***************************************************************************)
EXTENDS Integers, Sequences, FiniteSets, TLC

(***************************************************************************)
(* Bounds                                                                  *)
(***************************************************************************)
\* Longest batch of runner_ids handed to get_many.
MaxBatch == 2
\* self.limit is 10 in src/scraper.py:22; the model uses a smaller ceiling so
\* that batches longer than the ceiling occur within MaxBatch.
limit == 1
\* Longest command-line argument (in characters) given to the entry point.
MaxArgLen == 3
\* Longest text (in characters) given to parse_hhmmss_to_seconds.
MaxTextLen == 5
\* Most timing-row containers of a page given to parse_runner.
MaxRows == 3
\* Most diagnostic lines the child of fetch_many writes to stderr.
MaxDiag == 4
\* Lines an operating-system pipe holds before a write to it blocks, and lines
\* one read of the parent's buffered reader takes out of the pipe at most.
PipeCapacity == 2
ChunkLines == 2

(***************************************************************************)
(* Python values                                                           *)
(***************************************************************************)
\* A dict field that holds an int in some records and a str in others
\* (runner_id: the requested id, or "N/A") is kept with its type.
PyInt(n) == [int |-> n]
PyStr(s) == [str |-> s]

\* Exceptions: class name and message (str(e)).
Exc(cls, msg) == [cls |-> cls, msg |-> msg]
PlaywrightTimeoutError == Exc("TimeoutError", "Timeout exceeded")
TargetClosedError == Exc("TargetClosedError", "Target page, context or browser has been closed")
PlaywrightError == Exc("Error", "net::ERR_FAILED")
TypeError == Exc("TypeError", "get_many() got an unexpected keyword argument 'limit'")
ValueError(msg) == Exc("ValueError", msg)

\* Texts are sequences of characters.
Range(s) == {s[k] : k \in DOMAIN s}

(***************************************************************************)
(* Output streams: print(..., file=...) appends one line to the stream.    *)
(***************************************************************************)
TextLine == [kind |-> "text"]
JsonLine(v) == [kind |-> "json", value |-> v]
print(streams, file, line) == [streams EXCEPT ![file] = Append(@, line)]

\* json.dumps: a list becomes an array, a dict an object.
json_dumps_list(l) == [type |-> "array", items |-> l]
json_dumps_dict(d) == [type |-> "object", members |-> d]

(***************************************************************************)
(* Rendered pages and parse_runner                                         *)
(***************************************************************************)
\* A rendered page: the div.table-row.ant-row containers in document order,
\* each with the texts of its div.ant-col.ant-col-6 cells; the player card's
\* title and description (<< >> when the node is missing) and the event
\* card's title.
Html(rows, title, desc, event) ==
    [rows |-> rows, title |-> title, desc |-> desc, event |-> event]

PageA ==
    Html(<< <<"Start", "08:00:00", "00:00", "00:00:00">>,
            <<"5K", "08:25:10", "25:10", "00:25:10">>,
            <<"Finish", "08:51:00", "25:50", "00:51:00">> >>,
         <<"H","o","n","g">>, <<"M"," ","|"," ","#","7">>, <<"R","u","n">>)
PageShort ==
    Html(<< << >>, <<"Start", "08:00:00">> >>,
         << >>, <<"K","i","m","|","9">>, << >>)
PageEmpty == Html(<< >>, << >>, << >>, << >>)
Pages == {PageA, PageEmpty}

\* str.strip() for texts over the model's alphabet (blank is " ").
RECURSIVE lstrip(_)
lstrip(s) == IF s # << >> /\ Head(s) = " " THEN lstrip(Tail(s)) ELSE s
RECURSIVE rstrip(_)
rstrip(s) ==
    IF s # << >> /\ s[Len(s)] = " " THEN rstrip(SubSeq(s, 1, Len(s) - 1)) ELSE s
strip(s) == rstrip(lstrip(s))

\* str.split(sep): always at least one piece.
RECURSIVE split(_, _)
split(s, sep) ==
    IF \E k \in DOMAIN s : s[k] = sep
    THEN LET k == CHOOSE j \in DOMAIN s : s[j] = sep /\ \A m \in 1..(j - 1) : s[m] # sep
         IN  <<SubSeq(s, 1, k - 1)>> \o split(SubSeq(s, k + 1, Len(s)), sep)
    ELSE <<s>>

\* Mutant of parse_sections: a row with fewer than four cells is dropped.
RECURSIVE parse_sections_full_rows_only(_)
parse_sections_full_rows_only(rows) ==
    IF rows = << >> THEN << >>
    ELSE LET cols == Head(rows)
             rest == parse_sections_full_rows_only(Tail(rows))
         IN  IF Len(cols) >= 4
             THEN << [section |-> cols[1], pass_time |-> cols[2],
                      split_time |-> cols[3], total_time |-> cols[4]] >> \o rest
             ELSE rest

\* src/scraper.py:36-44: one section per row that has cells.
RECURSIVE parse_sections(_)
parse_sections(rows) ==
    IF rows = << >> THEN << >>
    ELSE LET cols == Head(rows)
             rest == parse_sections(Tail(rows))
         IN  IF cols # << >>
             THEN << [section    |-> IF Len(cols) > 0 THEN cols[1] ELSE "",
                      pass_time  |-> IF Len(cols) > 1 THEN cols[2] ELSE "",
                      split_time |-> IF Len(cols) > 2 THEN cols[3] ELSE "",
                      total_time |-> IF Len(cols) > 3 THEN cols[4] ELSE ""] >> \o rest
             ELSE rest

\* The gender tokens of src/scraper.py:64 that are in the model's alphabet.
GenderTokens == {"M", "F"}
\* name or the sentinel of src/scraper.py:76.
NoName == <<"?">>

\* src/scraper.py:32-81.
parse_runner(html) ==
    LET sections == parse_sections(html.rows)
        has_desc == html.desc # << >>
        parts == [k \in DOMAIN split(strip(html.desc), "|") |->
                     strip(split(strip(html.desc), "|")[k])]
        gender == IF has_desc /\ Range(parts[1]) \cap GenderTokens # {}
                  THEN parts[1] ELSE << >>
        bib_no == IF has_desc /\ Len(parts) >= 2
                  THEN strip(SelectSeq(parts[2], LAMBDA c : c # "#")) ELSE << >>
        name0 == strip(html.title)
        name == IF name0 = << >> /\ has_desc THEN parts[1] ELSE name0
    IN  [name       |-> IF name # << >> THEN name ELSE NoName,
         gender     |-> gender,
         bib_no     |-> bib_no,
         event_name |-> strip(html.event),
         sections   |-> sections]

(***************************************************************************)
(* fetch_runner: what it returns for each way its body can end             *)
(***************************************************************************)
\* src/scraper.py:96-98: the parsed record, stamped with the requested id.
success_record(html, runner_id) ==
    LET parsed == parse_runner(html)
    IN  [name       |-> parsed.name,
         gender     |-> parsed.gender,
         bib_no     |-> parsed.bib_no,
         event_name |-> parsed.event_name,
         sections   |-> parsed.sections,
         runner_id  |-> PyInt(runner_id)]

\* Mutant of failure_record: a failure also carries an empty sections list.
failure_record_with_sections(e, runner_id) ==
    [runner_id |-> PyInt(runner_id),
     error |-> IF e.cls = "TimeoutError" THEN "timeout"
               ELSE IF e.cls = "TargetClosedError" THEN "TargetClosedError" ELSE e.msg,
     sections |-> << >>]

\* Mutant of failure_record: the generic clause comes first.
failure_record_generic_first(e, runner_id) ==
    [runner_id |-> PyInt(runner_id), error |-> e.msg]

\* src/scraper.py:99-107: the except clauses, in their order.
failure_record(e, runner_id) ==
    IF e.cls = "TimeoutError"
    THEN [runner_id |-> PyInt(runner_id), error |-> "timeout"]
    ELSE IF e.cls = "TargetClosedError"
    THEN [runner_id |-> PyInt(runner_id), error |-> "TargetClosedError"]
    ELSE [runner_id |-> PyInt(runner_id), error |-> e.msg]

\* What the awaited Playwright operations raise in the model: every except
\* clause of fetch_runner is reached from page.goto, and the later operations
\* each fail in one further way.
GotoErrors == {PlaywrightTimeoutError, TargetClosedError, PlaywrightError}
SelectorErrors == {PlaywrightTimeoutError, TargetClosedError}
ContentErrors == {PlaywrightError}
PageErrors == {TargetClosedError}
BrowserErrors == {PlaywrightError}

(***************************************************************************)
(* State                                                                   *)
(***************************************************************************)
VARIABLES
    argv,           \* sys.argv[1:] of the entry point (<< >> for an in-process call)
    rpc,            \* entry point: "main", "construct", "call", "running", "exit";
                    \* in-process caller: "lib", "lib_running", "lib_done"
    exitcode,       \* process exit status, -1 while running
    streams,        \* lines written to stdout and to stderr
    race_id,        \* get_many's race_id
    runner_ids,     \* get_many's runner_ids
    cpc,            \* get_many: "idle", "launch", "new_context", "gather", "exit",
                    \*           "finish", "done"
    browser,        \* "none", "open", "closed"
    sem,            \* value of the asyncio.Semaphore
    tasks,          \* one worker task per requested id, in request order
    done,           \* the progress counter of get_many_async
    pending,        \* << >> or <<e>>: the exception propagating out of get_many_async
    final_results,  \* the list get_many_async builds
    result,         \* << >> or <<list>>: what get_many returned
    duration,       \* a call of parse_hhmmss_to_seconds: its text and its value
    extract,        \* a call of parse_runner: its page and its record
    pipe            \* a run of fetch_many: the child, its two pipes, the read loop

vars == <<argv, rpc, exitcode, streams, race_id, runner_ids, cpc, browser, sem,
          tasks, done, pending, final_results, result, duration, extract, pipe>>

\* Each of the last three variables belongs to a specification of its own and
\* is off in the others.
Off == [pc |-> "off"]
aux_vars == <<duration, extract, pipe>>

\* A worker task: pc is the await it is at ("acquire", "new_page", "goto",
\* "wait_for_selector", "sleep", "content", "close") or how it ended ("returned",
\* "raised"); goto/selector/content/slept record how the page operations of
\* fetch_runner ended; res is worker's local res; ret/exc the task's outcome.
NewTask(runner_id) ==
    [runner_id |-> runner_id, pc |-> "acquire", page |-> "none",
     goto |-> "pending", selector |-> "pending", content |-> "pending",
     slept |-> FALSE,
     res |-> << >>, ret |-> << >>, exc |-> << >>]

Settled(t) == t.pc \in {"returned", "raised"}

(***************************************************************************)
(* The batch entry point's argument parsing (src/scraper_runner.py:9-16)   *)
(***************************************************************************)
Digits == {"0", "1", "2", "3", "4", "5", "6", "7", "8", "9"}
DigitVal(c) ==
    CASE c = "0" -> 0 [] c = "1" -> 1 [] c = "2" -> 2 [] c = "3" -> 3 [] c = "4" -> 4
      [] c = "5" -> 5 [] c = "6" -> 6 [] c = "7" -> 7 [] c = "8" -> 8 [] c = "9" -> 9

\* str.isdigit(): non-empty and digits only.
isdigit(s) == s # << >> /\ \A k \in DOMAIN s : s[k] \in Digits

RECURSIVE digits_value(_)
digits_value(s) ==
    IF s = << >> THEN 0
    ELSE 10 * digits_value(SubSeq(s, 1, Len(s) - 1)) + DigitVal(s[Len(s)])

\* Mutant of int: text that is no number is read as 0.
int_lenient(s) ==
    LET t == strip(s)
        signed == t # << >> /\ Head(t) \in {"-", "+"}
        body == IF signed THEN Tail(t) ELSE t
    IN  IF isdigit(body)
        THEN << (IF signed /\ Head(t) = "-" THEN -1 ELSE 1) * digits_value(body) >>
        ELSE << 0 >>

\* int(s): surrounding blanks and one sign are accepted; << >> stands for the
\* ValueError, <<n>> for the value.
int(s) ==
    LET t == strip(s)
        signed == t # << >> /\ Head(t) \in {"-", "+"}
        body == IF signed THEN Tail(t) ELSE t
    IN  IF isdigit(body)
        THEN << (IF signed /\ Head(t) = "-" THEN -1 ELSE 1) * digits_value(body) >>
        ELSE << >>

\* src/scraper_runner.py:13.
parse_runner_ids(arg) ==
    LET kept == SelectSeq(split(arg, ","), LAMBDA x : isdigit(strip(x)))
    IN  [k \in DOMAIN kept |-> int(kept[k])[1]]

\* The keyword arguments get_many accepts besides self (src/scraper.py:193) and
\* the ones the entry point passes by keyword (src/scraper_runner.py:20).
get_many_params == {"race_id", "runner_ids"}
call_keywords == {"limit"}

\* src/scraper_runner.py:26-29.
err_msg(e) == [error |-> e.msg, trace |-> "Traceback"]

(***************************************************************************)
(* Inputs                                                                  *)
(***************************************************************************)
StringsUpTo(alphabet, n) == UNION {[1..k -> alphabet] : k \in 0..n}
RaceArgs ==
    { <<"1","3","2">>, <<"a","b","c">>, << >>, <<"-","1">>, <<" ","7">>, <<"1","a">> }
IdsArgs == StringsUpTo({"1", "2", ",", "a", " "}, MaxArgLen)
Ids == {1051, 1052}
Batches == UNION {[1..k -> Ids] : k \in 1..MaxBatch}

(***************************************************************************)
(* Init                                                                    *)
(***************************************************************************)
NoStreams == [stdout |-> << >>, stderr |-> << >>]

\* The entry point as a fresh process.
InitRunner ==
    /\ argv \in {<< >>} \cup {<<r>> : r \in RaceArgs}
                \cup {<<r, i>> : r \in RaceArgs, i \in IdsArgs}
    /\ rpc = "main"
    /\ streams = NoStreams
    /\ race_id = 0
    /\ runner_ids = << >>

\* An in-process caller holding a constructed MyResultScraper
\* (src/scraper.py:15-27 has printed its line) and about to call get_many.
InitLibrary ==
    /\ argv = << >>
    /\ rpc = "lib"
    /\ streams = print(NoStreams, "stderr", TextLine)
    /\ race_id = 132
    /\ runner_ids \in Batches

Init ==
    /\ InitRunner \/ InitLibrary
    /\ duration = Off /\ extract = Off /\ pipe = Off
    /\ exitcode = -1
    /\ cpc = "idle"
    /\ browser = "none"
    /\ sem = 0
    /\ tasks = << >>
    /\ done = 0
    /\ pending = << >>
    /\ final_results = << >>
    /\ result = << >>

ctl_vars == <<cpc, browser, sem, tasks, done, pending, final_results, result>>

(***************************************************************************)
(* Entry point (src/scraper_runner.py)                                     *)
(***************************************************************************)
\* Mutant of RunnerFail: the error object is written to stderr.
RunnerFail_on_stderr(e) ==
    /\ streams' = print(streams, "stderr", JsonLine(json_dumps_dict(err_msg(e))))
    /\ exitcode' = 1
    /\ rpc' = "exit"

\* src/scraper_runner.py:25-32: the handler of every exception of the script.
RunnerFail(e) ==
    /\ streams' = print(streams, "stdout", JsonLine(json_dumps_dict(err_msg(e))))
    /\ exitcode' = 1
    /\ rpc' = "exit"

\* src/scraper_runner.py:9-16: validation of the arguments.
RunnerMain ==
    /\ UNCHANGED aux_vars
    /\ rpc = "main"
    /\ UNCHANGED <<argv, ctl_vars>>
    /\ IF Len(argv) < 2
       THEN RunnerFail(ValueError("missing arguments"))
               /\ UNCHANGED <<race_id, runner_ids>>
       ELSE IF int(argv[1]) = << >>
       THEN RunnerFail(ValueError("invalid literal for int()"))
               /\ UNCHANGED <<race_id, runner_ids>>
       ELSE IF parse_runner_ids(argv[2]) = << >>
       THEN RunnerFail(ValueError("runner_ids is empty"))
               /\ UNCHANGED <<race_id, runner_ids>>
       ELSE /\ race_id' = int(argv[1])[1]
            /\ runner_ids' = parse_runner_ids(argv[2])
            /\ rpc' = "construct"
            /\ UNCHANGED <<streams, exitcode>>

\* src/scraper_runner.py:19 with src/scraper.py:15-27.
RunnerConstruct ==
    /\ UNCHANGED aux_vars
    /\ rpc = "construct"
    /\ streams' = print(streams, "stderr", TextLine)
    /\ rpc' = "call"
    /\ UNCHANGED <<argv, exitcode, race_id, runner_ids, ctl_vars>>

\* get_many_async up to its first await (src/scraper.py:113-119).
get_many_enter ==
    /\ cpc' = "launch"
    /\ streams' = print(streams, "stderr", TextLine)

\* src/scraper_runner.py:20: the call binds only if every keyword it passes is
\* a parameter of get_many; otherwise it raises TypeError before the body runs.
RunnerCall ==
    /\ UNCHANGED aux_vars
    /\ rpc = "call"
    /\ UNCHANGED <<argv, race_id, runner_ids>>
    /\ IF call_keywords \subseteq get_many_params
       THEN /\ cpc = "idle"
            /\ get_many_enter
            /\ rpc' = "running"
            /\ UNCHANGED <<exitcode, browser, sem, tasks, done, pending,
                           final_results, result>>
       ELSE /\ RunnerFail(TypeError)
            /\ UNCHANGED ctl_vars

\* The in-process call get_many(race_id, runner_ids).
LibraryCall ==
    /\ UNCHANGED aux_vars
    /\ rpc = "lib"
    /\ cpc = "idle"
    /\ get_many_enter
    /\ rpc' = "lib_running"
    /\ UNCHANGED <<argv, exitcode, race_id, runner_ids, browser, sem, tasks, done,
                   pending, final_results, result>>

(***************************************************************************)
(* get_many_async (src/scraper.py:112-188)                                 *)
(***************************************************************************)
io_vars == <<argv, rpc, exitcode, race_id, runner_ids>>

\* An exception leaves the body of "async with async_playwright()".
Propagate(e) ==
    /\ pending' = <<e>>
    /\ cpc' = "exit"

\* src/scraper.py:121-140: p.chromium.launch.
Launch ==
    /\ UNCHANGED aux_vars
    /\ cpc = "launch"
    /\ UNCHANGED <<io_vars, streams, sem, tasks, done, final_results, result>>
    /\ \/ /\ browser' = "open"
          /\ cpc' = "new_context"
          /\ UNCHANGED pending
       \/ \E e \in BrowserErrors :
             /\ Propagate(e)
             /\ UNCHANGED browser

\* src/scraper.py:141-142 and 169-170: the context, the semaphore, and one
\* worker task per requested id, handed to asyncio.gather.
NewContext ==
    /\ UNCHANGED aux_vars
    /\ cpc = "new_context"
    /\ UNCHANGED <<io_vars, streams, browser, done, final_results, result>>
    /\ \/ /\ sem' = limit
          /\ tasks' = [k \in DOMAIN runner_ids |-> NewTask(runner_ids[k])]
          /\ cpc' = "gather"
          /\ UNCHANGED pending
       \/ \E e \in BrowserErrors :
             /\ Propagate(e)
             /\ UNCHANGED <<sem, tasks>>

(***************************************************************************)
(* worker (src/scraper.py:144-166) and fetch_runner (src/scraper.py:86-107)*)
(***************************************************************************)
wk_unchanged == <<io_vars, cpc, browser, pending, final_results, result>>

\* Mutant of sem_acquire: a slot is handed out whatever the value.
sem_acquire_unguarded(value) == TRUE

\* Mutant of sem_release: the slot is not given back.
sem_release_lost(value) == value

\* asyncio.Semaphore: acquire takes a slot when the value is positive, release
\* gives it back ("async with sem", src/scraper.py:147).
sem_acquire(value) == value > 0
sem_release(value) == value + 1

\* "async with sem" entered (src/scraper.py:147).
Acquire(i) ==
    /\ UNCHANGED aux_vars
    /\ cpc = "gather"
    /\ tasks[i].pc = "acquire"
    /\ sem_acquire(sem)
    /\ sem' = sem - 1
    /\ tasks' = [tasks EXCEPT ![i].pc = "new_page"]
    /\ UNCHANGED <<wk_unchanged, streams, done>>

\* The task ends by raising e: "async with sem" releases the slot on the way out.
task_raise(t, e) == [t EXCEPT !.pc = "raised", !.res = << >>, !.exc = <<e>>]

\* src/scraper.py:148: context.new_page().
NewPage(i) ==
    /\ UNCHANGED aux_vars
    /\ cpc = "gather"
    /\ tasks[i].pc = "new_page"
    /\ UNCHANGED <<wk_unchanged, streams, done>>
    /\ \/ /\ tasks' = [tasks EXCEPT ![i].pc = "goto", ![i].page = "open"]
          /\ UNCHANGED sem
       \/ \E e \in PageErrors :
             /\ tasks' = [tasks EXCEPT ![i] = task_raise(@, e)]
             /\ sem' = sem_release(sem)

\* fetch_runner returns the failure record of e (src/scraper.py:99-107): one
\* line on stderr, then back in worker at page.close().
fetch_failed(t, e) ==
    [t EXCEPT !.pc = "close", !.res = <<failure_record(e, t.runner_id)>>]

\* src/scraper.py:89: page.goto.
Goto(i) ==
    /\ UNCHANGED aux_vars
    /\ cpc = "gather"
    /\ tasks[i].pc = "goto"
    /\ UNCHANGED <<wk_unchanged, sem, done>>
    /\ \/ /\ tasks' = [tasks EXCEPT ![i].pc = "wait_for_selector", ![i].goto = "ok"]
          /\ UNCHANGED streams
       \/ \E e \in GotoErrors :
             /\ tasks' = [tasks EXCEPT ![i] = fetch_failed([@ EXCEPT !.goto = e.cls], e)]
             /\ streams' = print(streams, "stderr", TextLine)

\* Mutant of selector_caught: the inner try catches nothing.
selector_caught_nothing(e) == FALSE

\* src/scraper.py:92: the inner except clause.
selector_caught(e) == e.cls = "TimeoutError"

\* src/scraper.py:90-93: page.wait_for_selector; its timeout is caught.
WaitForSelector(i) ==
    /\ UNCHANGED aux_vars
    /\ cpc = "gather"
    /\ tasks[i].pc = "wait_for_selector"
    /\ UNCHANGED <<wk_unchanged, sem, done>>
    /\ \/ /\ tasks' = [tasks EXCEPT ![i].pc = "content", ![i].selector = "ok"]
          /\ UNCHANGED streams
       \/ \E e \in SelectorErrors :
             IF selector_caught(e)
             THEN /\ tasks' = [tasks EXCEPT ![i].pc = "sleep", ![i].selector = e.cls]
                  /\ UNCHANGED streams
             ELSE /\ tasks' = [tasks EXCEPT
                                  ![i] = fetch_failed([@ EXCEPT !.selector = e.cls], e)]
                  /\ streams' = print(streams, "stderr", TextLine)

\* src/scraper.py:93: asyncio.sleep(0.8).
Sleep(i) ==
    /\ UNCHANGED aux_vars
    /\ cpc = "gather"
    /\ tasks[i].pc = "sleep"
    /\ tasks' = [tasks EXCEPT ![i].pc = "content", ![i].slept = TRUE]
    /\ UNCHANGED <<wk_unchanged, streams, sem, done>>

\* src/scraper.py:95-98: page.content(), parse_runner, the stamp.
Content(i) ==
    /\ UNCHANGED aux_vars
    /\ cpc = "gather"
    /\ tasks[i].pc = "content"
    /\ UNCHANGED <<wk_unchanged, sem, done>>
    /\ \/ \E html \in Pages :
             /\ tasks' = [tasks EXCEPT
                             ![i].pc = "close", ![i].content = "ok",
                             ![i].res = <<success_record(html, tasks[i].runner_id)>>]
             /\ UNCHANGED streams
       \/ \E e \in ContentErrors :
             /\ tasks' = [tasks EXCEPT ![i] = fetch_failed([@ EXCEPT !.content = e.cls], e)]
             /\ streams' = print(streams, "stderr", TextLine)

\* src/scraper.py:150-166: page.close(), the progress line, return res.
PageClose(i) ==
    /\ UNCHANGED aux_vars
    /\ cpc = "gather"
    /\ tasks[i].pc = "close"
    /\ sem' = sem_release(sem)
    /\ UNCHANGED wk_unchanged
    /\ \/ /\ tasks' = [tasks EXCEPT ![i].pc = "returned", ![i].page = "closed",
                                    ![i].ret = tasks[i].res]
          /\ done' = done + 1
          /\ streams' = print(streams, "stderr", TextLine)
       \/ \E e \in PageErrors :
             /\ tasks' = [tasks EXCEPT ![i] = task_raise(@, e)]
             /\ UNCHANGED <<done, streams>>

(***************************************************************************)
(* get_many_async after the gather, and get_many (src/scraper.py:170-198)  *)
(***************************************************************************)
\* Mutant of gather: the outcomes come back last task first.
gather_reversed(ts) ==
    [k \in DOMAIN ts |->
        LET t == ts[Len(ts) + 1 - k]
        IN  IF t.pc = "raised" THEN [exc |-> t.exc[1]] ELSE [ret |-> t.ret[1]]]

\* Mutant of gather: the first exception of the batch stands for every item.
gather_first_exception(ts) ==
    IF \E j \in DOMAIN ts : ts[j].pc = "raised"
    THEN LET j == CHOOSE m \in DOMAIN ts : ts[m].pc = "raised"
         IN  [k \in DOMAIN ts |-> [exc |-> ts[j].exc[1]]]
    ELSE [k \in DOMAIN ts |-> [ret |-> ts[k].ret[1]]]

\* asyncio.gather(*tasks, return_exceptions=True): in task order, what each
\* task returned or the exception it raised.
gather(ts) ==
    [k \in DOMAIN ts |-> IF ts[k].pc = "raised" THEN [exc |-> ts[k].exc[1]]
                                                ELSE [ret |-> ts[k].ret[1]]]

is_exception(item) == "exc" \in DOMAIN item

\* Mutant of final_record: the synthetic record carries the exception's message.
final_record_with_message(item) ==
    IF is_exception(item)
    THEN [runner_id |-> PyStr("N/A"),
          error |-> "Critical gather failure: " \o item.exc.msg]
    ELSE item.ret

\* src/scraper.py:177-182: one output record per gathered item.
final_record(item) ==
    IF is_exception(item)
    THEN [runner_id |-> PyStr("N/A"),
          error |-> "Critical gather failure: " \o item.exc.cls]
    ELSE item.ret

RECURSIVE print_lines(_, _, _)
print_lines(st, file, n) ==
    IF n = 0 THEN st ELSE print_lines(print(st, file, TextLine), file, n - 1)

\* browser.close() closes every page of the browser.
close_pages(ts) ==
    [k \in DOMAIN ts |-> IF ts[k].page = "open" THEN [ts[k] EXCEPT !.page = "closed"]
                                                ELSE ts[k]]

\* src/scraper.py:170-182: the gather has every outcome; browser.close(); the
\* final list, with one line on stderr per task that raised.
BrowserClose ==
    /\ UNCHANGED aux_vars
    /\ cpc = "gather"
    /\ \A k \in DOMAIN tasks : Settled(tasks[k])
    /\ UNCHANGED <<io_vars, sem, done, result>>
    /\ \/ LET items == gather(tasks)
          IN  /\ browser' = "closed"
              /\ tasks' = close_pages(tasks)
              /\ final_results' = [k \in DOMAIN items |-> final_record(items[k])]
              /\ streams' = print_lines(streams, "stderr",
                               Cardinality({k \in DOMAIN items : is_exception(items[k])}))
              /\ cpc' = "exit"
              /\ UNCHANGED pending
       \/ \E e \in BrowserErrors :
             /\ Propagate(e)
             /\ UNCHANGED <<browser, tasks, final_results, streams>>

\* Mutant of playwright_stop: the driver's exit leaves the browser as it is.
playwright_stop_leaves_browser(b) == b

\* Leaving "async with async_playwright()" (src/scraper.py:119) stops the
\* Playwright driver, which takes down a browser that is still open.
playwright_stop(b) == IF b = "open" THEN "closed" ELSE b

\* src/scraper.py:119 (exit of the block) and 185-187.
PlaywrightExit ==
    /\ UNCHANGED aux_vars
    /\ cpc = "exit"
    /\ browser' = playwright_stop(browser)
    /\ tasks' = IF browser' = "closed" THEN close_pages(tasks) ELSE tasks
    /\ streams' = IF pending = << >> THEN print_lines(streams, "stderr", 2) ELSE streams
    /\ cpc' = "finish"
    /\ UNCHANGED <<io_vars, sem, done, pending, final_results, result>>

\* Mutant of get_many_result: a failed batch comes back as one error record.
get_many_result_error_record(pend, finals) ==
    IF pend = << >> THEN finals ELSE << [error |-> pend[1].msg] >>

\* src/scraper.py:193-198: what get_many hands back.
get_many_result(pend, finals) == IF pend = << >> THEN finals ELSE << >>

\* get_many returns (src/scraper.py:193-198); the entry point then prints the
\* list and ends (src/scraper_runner.py:23).
GetManyReturn ==
    /\ UNCHANGED aux_vars
    /\ cpc = "finish"
    /\ cpc' = "done"
    /\ result' = <<get_many_result(pending, final_results)>>
    /\ LET logged == IF pending = << >> THEN streams
                     ELSE print(streams, "stderr", TextLine)
       IN  IF rpc = "running"
           THEN /\ streams' = print(logged, "stdout",
                                    JsonLine(json_dumps_list(result'[1])))
                /\ exitcode' = 0
                /\ rpc' = "exit"
           ELSE /\ streams' = logged
                /\ rpc' = "lib_done"
                /\ UNCHANGED exitcode
    /\ UNCHANGED <<argv, race_id, runner_ids, browser, sem, tasks, done, pending,
                   final_results>>

(***************************************************************************)
(* Specification                                                           *)
(***************************************************************************)
\* The steps of the worker task of runner_ids[i].
Worker(i) ==
    \/ Acquire(i)
    \/ NewPage(i)
    \/ Goto(i)
    \/ WaitForSelector(i)
    \/ Sleep(i)
    \/ Content(i)
    \/ PageClose(i)

Next ==
    \/ RunnerMain
    \/ RunnerConstruct
    \/ RunnerCall
    \/ LibraryCall
    \/ Launch
    \/ NewContext
    \/ \E i \in DOMAIN tasks : Acquire(i)
    \/ \E i \in DOMAIN tasks : NewPage(i)
    \/ \E i \in DOMAIN tasks : Goto(i)
    \/ \E i \in DOMAIN tasks : WaitForSelector(i)
    \/ \E i \in DOMAIN tasks : Sleep(i)
    \/ \E i \in DOMAIN tasks : Content(i)
    \/ \E i \in DOMAIN tasks : PageClose(i)
    \/ BrowserClose
    \/ PlaywrightExit
    \/ GetManyReturn

Spec == Init /\ [][Next]_vars

\* The event loop runs every step that is ready, and every awaited Playwright
\* operation ends (returns or raises): no enabled step is put off forever.
\* The ids play no part in the scheduling, so the batches of the fair
\* specification repeat one id.
FairInit == Init /\ \A k \in DOMAIN runner_ids : rpc = "lib" => runner_ids[k] = 1051
FairSpec == FairInit /\ [][Next]_vars /\ WF_vars(Next)

(***************************************************************************)
(* Properties                                                              *)
(***************************************************************************)
\* get_many has returned, and what it returned.
Returned == cpc = "done"
Output == result[1]
\* get_many_async returned its list (no exception left its body).
ReturnedList == Returned /\ pending = << >>

HasSlot(t) ==
    t.pc \in {"new_page", "goto", "wait_for_selector", "sleep", "content", "close"}
IsSuccess(r) == "sections" \in DOMAIN r /\ "error" \notin DOMAIN r
IsFailure(r) == "error" \in DOMAIN r /\ "sections" \notin DOMAIN r

Requested(v) == Cardinality({k \in DOMAIN runner_ids : PyInt(runner_ids[k]) = v})
Answered(v) == Cardinality({k \in DOMAIN Output : Output[k].runner_id = v})

\* C1 (as stated): whenever the per-item outcomes are the only failures of a
\* batch, the returned list has one record per requested id and the multiset
\* of its runner_id fields is the multiset of the requested ids.
C1_Original ==
    ReturnedList =>
        /\ Len(Output) = Len(runner_ids)
        /\ \A v \in {PyInt(runner_ids[k]) : k \in DOMAIN runner_ids}
                    \cup {Output[k].runner_id : k \in DOMAIN Output} :
              Answered(v) = Requested(v)

\* C2: once some worker task has raised, every sibling still settles by itself,
\* a sibling inside the semaphore can always take its next step, and every
\* sibling that returned has run its fetch to the end and has its own record,
\* success or failure, at its place in the list get_many_async returns.
C2_SiblingsComplete ==
    \A j \in DOMAIN tasks : tasks[j].pc = "raised" =>
        \A k \in DOMAIN tasks \ {j} :
            /\ cpc = "gather" /\ HasSlot(tasks[k]) => ENABLED Worker(k)
            /\ cpc # "gather" => Settled(tasks[k])
            /\ tasks[k].pc = "returned" =>
                  /\ tasks[k].goto # "pending"
                  /\ tasks[k].ret # << >>
                  /\ tasks[k].ret[1].runner_id = PyInt(runner_ids[k])
                  /\ IsSuccess(tasks[k].ret[1]) \/ IsFailure(tasks[k].ret[1])
                  /\ ReturnedList => Output[k] = tasks[k].ret[1]

\* A batch of two in which the first worker raised at new_page and the second
\* returned a parsed page: the list is back with the sibling's record in it.
C2_Witness ==
    /\ ReturnedList
    /\ Len(tasks) = 2
    /\ tasks[1].pc = "raised" /\ tasks[1].goto = "pending"
    /\ tasks[2].pc = "returned"
    /\ IsSuccess(Output[2])

C4_AtMostLimit ==
    Cardinality({k \in DOMAIN tasks : HasSlot(tasks[k])}) <= limit

\* Every slot is taken while another worker is still waiting for one.
C4_Witness ==
    /\ Cardinality({k \in DOMAIN tasks : HasSlot(tasks[k])}) = limit
    /\ \E k \in DOMAIN tasks : tasks[k].pc = "acquire"

\* What the claims about the entry point call an integer and a digit-only token.
IsIntegerText(s) ==
    LET t == strip(s)
    IN  \/ isdigit(t)
        \/ Len(t) >= 2 /\ Head(t) \in {"-", "+"} /\ isdigit(Tail(t))
Tokens(arg) == Range(split(arg, ","))
Stdout == streams.stdout
Stderr == streams.stderr
IsErrorObject(line) ==
    /\ line.kind = "json"
    /\ line.value.type = "object"
    /\ "error" \in DOMAIN line.value.members

\* C5 (as stated): with a race_id that parses as an integer and a list holding
\* a digit-only token, the entry point ends with status zero and stdout holds
\* the JSON array of the controller's records, not an error object.
C5_Original ==
    /\ rpc = "exit"
    /\ Len(argv) >= 2
    /\ IsIntegerText(argv[1])
    /\ \E x \in Tokens(argv[2]) : isdigit(x)
    => /\ exitcode = 0
       /\ Len(Stdout) = 1
       /\ Stdout[1].kind = "json"
       /\ Stdout[1].value.type = "array"

\* C6: with a race_id that is no integer, or a list without any digit-only
\* token, the entry point ends with one JSON error object on stdout and a
\* non-zero status, and neither the scraper nor any fetch was started.
C6_InvalidArgsRejected ==
    /\ rpc # "main"
    /\ Len(argv) >= 2
    /\ \/ ~IsIntegerText(argv[1])
       \/ \A x \in Tokens(argv[2]) : ~isdigit(strip(x))
    => /\ rpc = "exit"
       /\ exitcode \notin {0, -1}
       /\ Len(Stdout) = 1
       /\ IsErrorObject(Stdout[1])
       /\ Stderr = << >>
       /\ cpc = "idle" /\ browser = "none" /\ tasks = << >> /\ result = << >>

\* The entry point has ended on a race_id that is no integer although the
\* list holds an id, and on a list without ids although the race_id is one.
C6_Witness ==
    /\ rpc = "exit"
    /\ Len(argv) >= 2
    /\ \/ ~IsIntegerText(argv[1]) /\ \E x \in Tokens(argv[2]) : isdigit(x)
       \/ IsIntegerText(argv[1]) /\ argv[2] # << >>
            /\ \A x \in Tokens(argv[2]) : ~isdigit(strip(x))

\* C7: stdout never holds anything but JSON values and never more than one,
\* it holds exactly one when the entry point has ended, and every line written
\* to stderr is diagnostic text.
C7_OneJsonValue ==
    /\ Len(Stdout) <= 1
    /\ \A k \in DOMAIN Stdout : Stdout[k].kind = "json"
    /\ \A k \in DOMAIN Stderr : Stderr[k].kind = "text"
    /\ rpc = "exit" => Len(Stdout) = 1 /\ exitcode # -1

\* The entry point has ended after the scraper had written to stderr.
C7_Witness ==
    /\ rpc = "exit"
    /\ Stderr # << >>
    /\ Len(Stdout) = 1

\* C8: every record get_many returns, and every record a worker holds, has
\* exactly one of error and sections; the record of an item whose navigation
\* timed out is {runner_id, error: "timeout"} and nothing else.
C8_ErrorXorSections ==
    /\ Returned => \A k \in DOMAIN Output : IsSuccess(Output[k]) # IsFailure(Output[k])
    /\ \A k \in DOMAIN tasks :
          /\ tasks[k].res # << >> =>
                IsSuccess(tasks[k].res[1]) # IsFailure(tasks[k].res[1])
          /\ ReturnedList /\ tasks[k].pc = "returned" /\ tasks[k].goto = "TimeoutError" =>
                Output[k] = [runner_id |-> PyInt(runner_ids[k]), error |-> "timeout"]

\* A returned list of two: a navigation timeout, and a page without timing rows.
C8_Witness ==
    /\ ReturnedList
    /\ Len(Output) = 2
    /\ tasks[1].goto = "TimeoutError" /\ IsFailure(Output[1])
    /\ IsSuccess(Output[2]) /\ Output[2].sections = << >>

\* What fetch_runner has to return for the way its page operations ended.
C9_Expected(t, r) ==
    /\ r.runner_id = PyInt(t.runner_id)
    /\ IF t.goto = "TimeoutError"
       THEN IsFailure(r) /\ r.error = "timeout"
       ELSE IF "TargetClosedError" \in {t.goto, t.selector, t.content}
       THEN IsFailure(r) /\ r.error = "TargetClosedError"
            /\ r.error \notin {"timeout", PlaywrightError.msg}
       ELSE IF "Error" \in {t.goto, t.selector, t.content}
       THEN IsFailure(r) /\ r.error = PlaywrightError.msg
       ELSE /\ t.content = "ok"
            /\ \E html \in Pages : r = success_record(html, t.runner_id)

\* C9: a worker inside fetch_runner never ends by raising: from each of its
\* awaits it goes on inside fetch_runner or comes back to the worker with a
\* record, and that record is stamped with the requested id and is the timeout
\* record, the target-closed record, the record with the exception's message,
\* or the parsed page, according to how the page operations ended.
C9_FetchRunnerTotal ==
    /\ [](\A k \in DOMAIN tasks :
             tasks[k].pc \in {"close", "returned"} =>
                tasks[k].res # << >> /\ C9_Expected(tasks[k], tasks[k].res[1]))
    /\ [][\A k \in DOMAIN tasks :
             tasks[k].pc \in {"goto", "wait_for_selector", "sleep", "content"} =>
                /\ tasks'[k].pc \in {"goto", "wait_for_selector", "sleep", "content", "close"}
                /\ tasks'[k].exc = << >>]_vars

\* A batch whose two fetches ended in the target-closed record and in the
\* record with the exception's message.
C9_Witness ==
    /\ Len(tasks) = 2
    /\ tasks[1].pc = "returned" /\ tasks[1].selector = "TargetClosedError"
    /\ tasks[2].pc = "returned" /\ tasks[2].content = "Error"
    /\ tasks[2].ret[1].error = PlaywrightError.msg

\* C10: after a selector wait that timed out, fetch_runner holds no failure, it
\* sleeps before it reads the content, and if the content is read it returns a
\* success record; the "timeout" error only follows a navigation timeout.
C10_GraceThenSuccess ==
    \A k \in DOMAIN tasks :
        LET t == tasks[k]
        IN  /\ t.selector = "TimeoutError" =>
                 /\ t.goto = "ok"
                 /\ t.pc = "sleep" => t.res = << >> /\ ~t.slept
                 /\ t.pc \in {"content", "close", "returned"} => t.slept
                 /\ t.pc \in {"close", "returned"} /\ t.content = "ok" =>
                       IsSuccess(t.res[1])
            /\ t.res # << >> /\ IsFailure(t.res[1]) /\ t.res[1].error = "timeout" =>
                  t.goto = "TimeoutError"

\* A worker returned the record of a page without timing rows that it read
\* after the selector wait had timed out and the grace sleep was done.
C10_Witness ==
    \E k \in DOMAIN tasks :
        /\ tasks[k].pc = "returned"
        /\ tasks[k].selector = "TimeoutError"
        /\ tasks[k].slept
        /\ IsSuccess(tasks[k].ret[1])
        /\ tasks[k].ret[1].sections = << >>

\* The synthetic record of a task that raised e, with the given error prefix.
Synthetic(prefix, e) == [runner_id |-> PyStr("N/A"), error |-> prefix \o e.cls]

C11_Aggregated(prefix) ==
    ReturnedList =>
        /\ Len(Output) = Len(tasks)
        /\ \A k \in DOMAIN tasks :
              /\ tasks[k].pc = "raised" => Output[k] = Synthetic(prefix, tasks[k].exc[1])
              /\ tasks[k].pc = "returned" => Output[k] = tasks[k].ret[1]

\* C11 (as stated): each task that raised is answered by one synthetic record
\* whose error is "critical gather failure: <class name>" and whose runner_id
\* is unknown; each returned record is passed through unchanged.
C11_Original == C11_Aggregated("critical gather failure: ")

\* C11 (amended): the same, the error being "Critical gather failure: <class
\* name>" with a capital C, and the unknown runner_id being the string "N/A".
C11_SyntheticRecord == C11_Aggregated("Critical gather failure: ")

\* The list is back with a synthetic record next to a passed-through one.
C11_Witness ==
    /\ ReturnedList
    /\ Len(tasks) = 2
    /\ tasks[1].pc = "returned" /\ IsFailure(Output[1]) /\ Output[1].error = "timeout"
    /\ tasks[2].pc = "raised"
    /\ Output[2].error = "Critical gather failure: TargetClosedError"

\* C15: the list get_many_async returns is aligned with runner_ids: the task
\* at index i was started for runner_ids[i], and the record at index i is that
\* task's, carrying runner_ids[i] whenever the task returned.
C15_PositionallyAligned ==
    /\ \A i \in DOMAIN tasks : tasks[i].runner_id = runner_ids[i]
    /\ ReturnedList =>
          /\ DOMAIN Output = DOMAIN runner_ids
          /\ \A i \in DOMAIN runner_ids :
                IF tasks[i].pc = "returned"
                THEN /\ Output[i].runner_id = PyInt(runner_ids[i])
                     /\ Output[i] = tasks[i].ret[1]
                ELSE /\ tasks[i].pc = "raised"
                     /\ Output[i].runner_id = PyStr("N/A")

\* Two different ids were requested, the first was parsed and the second
\* failed, and the list is back.
C15_Witness ==
    /\ ReturnedList
    /\ Len(runner_ids) = 2
    /\ runner_ids[1] # runner_ids[2]
    /\ tasks[1].pc = "returned" /\ tasks[2].pc = "returned"
    /\ IsSuccess(Output[1]) /\ IsFailure(Output[2])

\* C16: get_many always hands back a list; when an exception left
\* get_many_async (launch, new_context or browser.close() failed) the list is
\* empty, whatever records the workers had returned, and otherwise it has one
\* record per requested id.
C16_EmptyListOnFailure ==
    /\ Returned <=> result # << >>
    /\ Returned =>
          IF pending # << >>
          THEN Output = << >>
          ELSE Len(Output) = Len(runner_ids)

\* browser.close() failed after both workers had returned their records.
C16_Witness ==
    /\ Returned
    /\ pending # << >>
    /\ Len(tasks) = 2
    /\ \A k \in DOMAIN tasks : tasks[k].pc = "returned" /\ tasks[k].ret # << >>
    /\ Output = << >>

\* C12: the slots in use and the free ones always add up to the limit, so a
\* worker that ended, by return or by raising, holds none; a batch that was
\* started is returned; and by then every worker has had its slot and ended.
C12_NoWorkerBlockedForever ==
    /\ [](cpc = "gather" =>
             /\ sem + Cardinality({k \in DOMAIN tasks : HasSlot(tasks[k])}) = limit
             /\ sem >= 0)
    /\ [](Returned /\ browser # "none" /\ tasks # << >> =>
             \A k \in DOMAIN tasks : Settled(tasks[k]))
    /\ (cpc = "launch") ~> Returned

\* More ids than slots: a worker waits for a slot while a sibling that holds
\* one is about to close its page.
C12_Witness ==
    /\ cpc = "gather"
    /\ Len(tasks) > limit
    /\ sem = 0
    /\ \E k \in DOMAIN tasks : tasks[k].pc = "acquire"
    /\ \E k \in DOMAIN tasks : tasks[k].pc = "close"

(***************************************************************************)
(* parse_hhmmss_to_seconds (src/utils.py)                                  *)
(***************************************************************************)
\* The scraper and the entry point at rest, for the specifications of the
\* other components.
MainOff ==
    /\ argv = << >> /\ rpc = "off" /\ exitcode = -1 /\ streams = NoStreams
    /\ race_id = 0 /\ runner_ids = << >> /\ cpc = "off" /\ browser = "none"
    /\ sem = 0 /\ tasks = << >> /\ done = 0 /\ pending = << >>
    /\ final_results = << >> /\ result = << >>
main_vars == <<argv, rpc, exitcode, streams, race_id, runner_ids, cpc, browser, sem,
               tasks, done, pending, final_results, result>>

\* [0-5]?\d and \d{1,2}.
minute_field(f) == isdigit(f) /\ (Len(f) = 1 \/ (Len(f) = 2 /\ f[1] \in {"0", "1", "2", "3", "4", "5"}))
hour_field(f) == isdigit(f) /\ Len(f) \in {1, 2}

\* re.fullmatch(r"(?:(\d{1,2}):)?([0-5]?\d):([0-5]?\d)", t): << >> when there
\* is no match, else the three groups, group 1 being << >> when it took no part.
hms_fullmatch(t) ==
    LET f == split(t, ":")
    IN  IF Len(f) = 3 /\ hour_field(f[1]) /\ minute_field(f[2]) /\ minute_field(f[3])
        THEN << <<f[1], f[2], f[3]>> >>
        ELSE IF Len(f) = 2 /\ minute_field(f[1]) /\ minute_field(f[2])
        THEN << << << >>, f[1], f[2]>> >>
        ELSE << >>

\* re.findall(r"\d+", t): the maximal runs of digits, left to right.
RECURSIVE digit_runs(_)
digit_runs(t) ==
    IF t = << >> THEN << >>
    ELSE IF Head(t) \notin Digits THEN digit_runs(Tail(t))
    ELSE LET n == CHOOSE k \in 1..Len(t) :
                     /\ \A j \in 1..k : t[j] \in Digits
                     /\ k = Len(t) \/ t[k + 1] \notin Digits
         IN  <<SubSeq(t, 1, n)>> \o digit_runs(SubSeq(t, n + 1, Len(t)))

\* src/utils.py:5-28: << >> stands for None, <<n>> for the int n.
parse_hhmmss_to_seconds(text) ==
    IF text = << >> THEN << >>
    ELSE LET t == strip(text)
             m == hms_fullmatch(t)
             runs == digit_runs(t)
         IN  IF m # << >>
             THEN << digits_value(m[1][1]) * 3600 + digits_value(m[1][2]) * 60
                        + digits_value(m[1][3]) >>
             ELSE IF Len(runs) = 3
             THEN << digits_value(runs[1]) * 3600 + digits_value(runs[2]) * 60
                        + digits_value(runs[3]) >>
             ELSE IF Len(runs) = 2
             THEN << digits_value(runs[1]) * 60 + digits_value(runs[2]) >>
             ELSE << >>

DurationTexts == StringsUpTo({"0", "1", "7", ":", "a", " "}, MaxTextLen)

DurationInit ==
    /\ MainOff
    /\ extract = Off /\ pipe = Off
    /\ duration \in [pc : {"call"}, text : DurationTexts, seconds : {<< >>}]

\* One call of parse_hhmmss_to_seconds.
ParseDuration ==
    /\ duration.pc = "call"
    /\ duration' = [duration EXCEPT !.pc = "done",
                                    !.seconds = parse_hhmmss_to_seconds(duration.text)]
    /\ UNCHANGED <<main_vars, extract, pipe>>

DurationNext == ParseDuration
DurationSpec == DurationInit /\ [][DurationNext]_vars

\* The time texts of the claim: one or two digits per field, minutes and
\* seconds below 60, blanks around the text aside.
TimeFields(text) == split(strip(text), ":")
IsDigitPair(f) == isdigit(f) /\ Len(f) <= 2
IsHMS(text) ==
    LET f == TimeFields(text)
    IN  /\ Len(f) = 3
        /\ \A k \in 1..3 : IsDigitPair(f[k])
        /\ digits_value(f[2]) < 60 /\ digits_value(f[3]) < 60
IsMS(text) ==
    LET f == TimeFields(text)
    IN  /\ Len(f) = 2
        /\ \A k \in 1..2 : IsDigitPair(f[k])
        /\ digits_value(f[1]) < 60 /\ digits_value(f[2]) < 60

\* C13 (as stated): "HH:MM:SS" gives h*3600+m*60+s, "MM:SS" gives m*60+s, and
\* the empty text and every other text give None.
C13_Original ==
    duration.pc = "done" =>
        LET f == TimeFields(duration.text)
        IN  IF IsHMS(duration.text)
            THEN duration.seconds = << digits_value(f[1]) * 3600
                                        + digits_value(f[2]) * 60 + digits_value(f[3]) >>
            ELSE IF IsMS(duration.text)
            THEN duration.seconds = << digits_value(f[1]) * 60 + digits_value(f[2]) >>
            ELSE duration.seconds = << >>

(***************************************************************************)
(* parse_runner on its own (src/scraper.py:32-81)                          *)
(***************************************************************************)
\* Rows of no to five cells: the leading cells of two rows of five, one of
\* which has an empty cell.
FullRows ==
    { <<"Start", "08:00:00", "00:00", "00:00:00", "extra">>,
      <<"5K", "", "25:10", "00:25:10", "more">> }
RowInputs == {SubSeq(row, 1, n) : row \in FullRows, n \in 0..5}
RowsInputs == UNION {[1..n -> RowInputs] : n \in 0..MaxRows}
HtmlInputs ==
    {Html(rows, p.title, p.desc, p.event) : rows \in RowsInputs, p \in {PageA, PageShort}}

ExtractInit ==
    /\ MainOff
    /\ duration = Off /\ pipe = Off
    /\ extract \in [pc : {"call"}, html : HtmlInputs, parsed : {<< >>}]

\* One call of parse_runner.
ParseRunner ==
    /\ extract.pc = "call"
    /\ extract' = [extract EXCEPT !.pc = "done", !.parsed = <<parse_runner(extract.html)>>]
    /\ UNCHANGED <<main_vars, duration, pipe>>

ExtractNext == ParseRunner
ExtractSpec == ExtractInit /\ [][ExtractNext]_vars

\* The text of cell j of a row, empty when the row has no such cell.
CellOr(row, j) == IF j <= Len(row) THEN row[j] ELSE ""

\* C14: sections has one entry per row that has a cell, in the order of the
\* rows; the four fields of an entry are the first four cell texts of its row,
\* a missing cell giving the empty string; no rows give an empty list.
C14_SectionsFollowRows ==
    extract.pc = "done" =>
        LET rows == extract.html.rows
            sections == extract.parsed[1].sections
            kept == SelectSeq(rows, LAMBDA r : Len(r) >= 1)
        IN  /\ Len(sections) = Len(kept)
            /\ \A i \in DOMAIN kept :
                  sections[i] = [section    |-> CellOr(kept[i], 1),
                                 pass_time  |-> CellOr(kept[i], 2),
                                 split_time |-> CellOr(kept[i], 3),
                                 total_time |-> CellOr(kept[i], 4)]
            /\ rows = << >> => sections = << >>

\* A page with a row without cells and a row of two cells was parsed into one
\* section whose last two fields are empty.
C14_Witness ==
    /\ extract.pc = "done"
    /\ Len(extract.html.rows) = 2
    /\ extract.html.rows[1] = << >>
    /\ extract.html.rows[2] = <<"Start", "08:00:00">>
    /\ Len(extract.parsed[1].sections) = 1
    /\ extract.parsed[1].sections[1].split_time = ""

(***************************************************************************)
(* fetch_many (src/app.py:128-190) and its child (src/scraper_runner.py)   *)
(***************************************************************************)
\* The values the child prints on stdout (src/scraper_runner.py:23 and 31).
ChildJson ==
    { JsonLine(json_dumps_list(<< >>)),
      JsonLine(json_dumps_dict(err_msg(TypeError))) }

\* The child has been started by subprocess.Popen with a pipe for stdout and one
\* for stderr, and the parent is at the top of its loop (src/app.py:140-151).
PipeInit ==
    /\ MainOff
    /\ duration = Off /\ extract = Off
    /\ \E k \in 0..MaxDiag, j \in ChildJson :
          pipe = [pc |-> "read_stderr", child |-> "running", k |-> k, json |-> j,
                  written |-> 0, wrote_out |-> FALSE,
                  err_pipe |-> << >>, out_pipe |-> << >>,
                  err_buf |-> << >>, out_buf |-> << >>,
                  echoed |-> 0, json_output |-> << >>]

pipe_unchanged == <<main_vars, duration, extract>>

\* A write blocks while the pipe is full.
can_write(os_pipe) == Len(os_pipe) < PipeCapacity

\* print(..., file=sys.stderr, flush=True) in the child.
ChildWriteStderr ==
    /\ pipe.child = "running"
    /\ pipe.written < pipe.k
    /\ can_write(pipe.err_pipe)
    /\ pipe' = [pipe EXCEPT !.err_pipe = Append(@, TextLine), !.written = @ + 1]
    /\ UNCHANGED pipe_unchanged

\* print(json.dumps(...)) in the child, after its last diagnostic line
\* (src/scraper_runner.py:23 and 31).
ChildWriteStdout ==
    /\ pipe.child = "running"
    /\ pipe.written = pipe.k
    /\ ~pipe.wrote_out
    /\ can_write(pipe.out_pipe)
    /\ pipe' = [pipe EXCEPT !.out_pipe = Append(@, pipe.json), !.wrote_out = TRUE]
    /\ UNCHANGED pipe_unchanged

\* The child ends, which closes its ends of both pipes.
ChildExit ==
    /\ pipe.child = "running"
    /\ pipe.wrote_out
    /\ pipe' = [pipe EXCEPT !.child = "exited"]
    /\ UNCHANGED pipe_unchanged

\* readline() on a pipe: it returns once a line is buffered or in the pipe, or
\* the writer has closed the pipe; until then it blocks.
can_readline(buf, os_pipe, child) == buf # << >> \/ os_pipe # << >> \/ child = "exited"

\* What readline() returns (<< >> at end of file) and what it leaves in the
\* reader's buffer and in the pipe.
readline(buf, os_pipe) ==
    IF buf # << >>
    THEN [line |-> <<Head(buf)>>, buf |-> Tail(buf), os_pipe |-> os_pipe]
    ELSE IF os_pipe # << >>
    THEN LET n == IF Len(os_pipe) < ChunkLines THEN Len(os_pipe) ELSE ChunkLines
         IN  [line |-> <<Head(os_pipe)>>,
              buf |-> SubSeq(os_pipe, 2, n),
              os_pipe |-> SubSeq(os_pipe, n + 1, Len(os_pipe))]
    ELSE [line |-> << >>, buf |-> buf, os_pipe |-> os_pipe]

\* src/app.py:152 and 155-156: stderr_line = process.stderr.readline(), echoed
\* when it is not empty.
ReadStderr ==
    /\ pipe.pc = "read_stderr"
    /\ can_readline(pipe.err_buf, pipe.err_pipe, pipe.child)
    /\ LET r == readline(pipe.err_buf, pipe.err_pipe)
       IN  pipe' = [pipe EXCEPT !.pc = "read_stdout",
                                !.err_buf = r.buf, !.err_pipe = r.os_pipe,
                                !.echoed = IF r.line # << >> THEN @ + 1 ELSE @]
    /\ UNCHANGED pipe_unchanged

\* src/app.py:153 and 157-158: stdout_line = process.stdout.readline(), kept
\* when it is not empty.
ReadStdout ==
    /\ pipe.pc = "read_stdout"
    /\ can_readline(pipe.out_buf, pipe.out_pipe, pipe.child)
    /\ LET r == readline(pipe.out_buf, pipe.out_pipe)
       IN  pipe' = [pipe EXCEPT !.pc = "poll",
                                !.out_buf = r.buf, !.out_pipe = r.os_pipe,
                                !.json_output = @ \o r.line]
    /\ UNCHANGED pipe_unchanged

\* src/app.py:160-164: the loop ends once process.poll() reports the child's
\* exit; raw_output is what was kept.
Poll ==
    /\ pipe.pc = "poll"
    /\ pipe' = [pipe EXCEPT !.pc = IF pipe.child = "exited" THEN "returned"
                                                            ELSE "read_stderr"]
    /\ UNCHANGED pipe_unchanged

PipeNext ==
    \/ ChildWriteStderr
    \/ ChildWriteStdout
    \/ ChildExit
    \/ ReadStderr
    \/ ReadStdout
    \/ Poll

PipeSpec == PipeInit /\ [][PipeNext]_vars

====
